---- MODULE Spec2Model ----
(***************************************************************************)
(* HowlClient (src/howl/client/howl_client.py): the streaming wake-word    *)
(* client.  Two threads act on one client object:                          *)
(*   - the controller thread calls the public operations start, join,      *)
(*     add_listener and from_pretrained;                                   *)
(*   - the audio thread of the capture library calls _on_audio once per    *)
(*     arriving chunk while the stream is active.                          *)
(* _on_audio is modelled statement group by statement group (cb_pc is the  *)
(* callback's position) so that the controller's operations interleave     *)
(* with it.  A frame is identified by its arrival index 1, 2, 3, ...; the  *)
(* bytes it carries are opaque.                                            *)
(*                                                                         *)
(* Environment, not code of the client:                                    *)
(*   - the engine's answer to infer (True, False or an exception) and the  *)
(*     token sequence it then holds; whether a listener raises;            *)
(*   - the capture library: it delivers frames only on an active stream,   *)
(*     one callback at a time, and aborts the stream when the callback     *)
(*     raises; the stream may also stop for outside reasons;               *)
(*   - whether the root logger is enabled for INFO;                        *)
(*   - the controller follows the client's lifecycle: it calls start()     *)
(*     only when no stream is active, and it is blocked while in join().   *)
(* Init is the client __init__ builds, and a frame reaches _on_audio as     *)
(* its one parameter in_data.  Not modelled: the compute device chosen by  *)
(* _get_device and the tensor conversion of the normalized window.         *)
(***************************************************************************)
EXTENDS Integers, Sequences, FiniteSets, TLC

\* self._audio_buf_len: number of frames in a window.
audio_buf_len == 16

\* self._audio_float_size: divisor of the integer-to-float scaling.
audio_float_size == 32767

\* self._audio_buf[2:]: frames retired per emitted window.
RetireStride == 2

\* Frames the audio thread delivers in a run (the end-to-end scenario
\* feeds 20).
MaxFrames == 20

\* Frames the audio thread delivers in a run of the audio thread alone.
LongFrames == 32

\* The end-to-end scenario's stub engine: it answers True on this emitted
\* window and on no other, and then holds StubSeq.
StubWindow == 16

StubSeq == <<2, 1>>

\* Listeners registered in a run.
MaxListeners == 2

\* Calls of start() in a run.
MaxStarts == 2

\* The callbacks a user may register.
ListenerIds == {"lisA", "lisB"}

\* Values engine.sequence may hold after a call of infer.
TokenSeqs == {<<1>>, <<2, 1>>}

\* Outcomes of self._audio.get_device_count()/get_device_info_by_index.
DeviceLists == {<<>>, <<"hw0">>, <<"hw0", "pulse">>}

VARIABLES
    engine,             \* self.engine: "None" or "engine"
    ctx,                \* self.ctx: "None" or "ctx"
    listeners,          \* self.listeners
    audio_buf,          \* self._audio_buf
    last_data,          \* self.last_data: 0 is the initial np.zeros
    stream,             \* self.stream: 0 unset, k the k-th stream opened
    active,             \* self.stream.is_active()
    input_device_index, \* device index the current stream was opened on
    sequence,           \* self.engine.sequence
    info_enabled,       \* root logger enabled for INFO
    cb_pc,              \* position of the audio thread in _on_audio
    audio_data,         \* _on_audio's local audio_data (the window)
    lis_i,              \* position of the loop over self.listeners
    join_pc,            \* position of the controller thread in join
    nframes,            \* frames delivered so far: in_data is frame nframes
    in_stream,          \* stream on which frame nframes arrived
    windows,            \* history: windows emitted, with the emitting push
    inferred,           \* history: arguments of the calls of engine.infer
    notified,           \* listener calls of the current callback
    detected,           \* answer of infer in the current callback
    cb_error,           \* what raised in the current callback
    n_start,            \* calls of start() so far
    start_error,        \* what the last start() raised
    device_io,          \* calls of start() that reached the device
    stub_run,           \* history: the engine has answered as the stub would
    stub_notify         \* history: first listener call of a stub run

vars == <<engine, ctx, listeners, audio_buf, last_data, stream, active,
          input_device_index, sequence, info_enabled, cb_pc, audio_data,
          lis_i, join_pc, nframes, in_stream, windows, inferred, notified,
          detected, cb_error, n_start, start_error, device_io, stub_run,
          stub_notify>>

clientVars == <<engine, ctx, listeners, audio_buf, last_data>>
streamVars == <<stream, active, input_device_index>>
cbVars == <<cb_pc, audio_data, lis_i, nframes, in_stream, windows, inferred,
            notified, detected, cb_error, stub_run, stub_notify>>
startVars == <<n_start, start_error, device_io>>

\* HowlClient.__init__: engine and context are optional arguments.
Init ==
    /\ engine \in {"None", "engine"}
    /\ ctx \in {"None", "ctx"}
    /\ listeners = <<>>
    /\ audio_buf = <<>>
    /\ last_data = 0
    /\ stream = 0
    /\ active = FALSE
    /\ input_device_index = 0
    /\ sequence = <<>>
    /\ info_enabled \in BOOLEAN
    /\ cb_pc = "idle"
    /\ audio_data = <<>>
    /\ lis_i = 0
    /\ join_pc = "none"
    /\ nframes = 0
    /\ in_stream = 0
    /\ windows = <<>>
    /\ inferred = <<>>
    /\ notified = <<>>
    /\ detected = "none"
    /\ cb_error = "none"
    /\ n_start = 0
    /\ start_error = "none"
    /\ device_io = 0
    /\ stub_run = TRUE
    /\ stub_notify = [push |-> 0, arg |-> <<>>]

(***************************************************************************)
(* Pure parts of _on_audio and start.                                      *)
(***************************************************************************)

\* Mutants of WindowReady: an off-by-one on either side of the comparison.
WindowReadyLate(buf) == Len(buf) > audio_buf_len

WindowReadyEarly(buf) == Len(buf) >= audio_buf_len - 1

\* len(self._audio_buf) != self._audio_buf_len: return without a window.
WindowReady(buf) == Len(buf) = audio_buf_len

\* Mutant of JoinBuf: the window is taken after the retirement.
JoinAfterRetire(buf) == SubSeq(buf, RetireStride + 1, Len(buf))

\* b''.join(self._audio_buf): the frames of the buffer, oldest first.
JoinBuf(buf) == SubSeq(buf, 1, Len(buf))

\* Mutant of Retire: the usual sliding window, one frame per emission.
RetireOne(buf) == SubSeq(buf, 2, Len(buf))

\* self._audio_buf[2:]
Retire(buf) == SubSeq(buf, RetireStride + 1, Len(buf))

\* _normalize_audio: every sample divided by self._audio_float_size, the
\* quotient kept as the pair <<dividend, divisor>>; order is preserved.
NormalizeAudio(data) == [i \in 1..Len(data) |-> <<data[i], audio_float_size>>]

\* Mutant of InferCall: a failed call is tried a second time.
InferCallRetry(log, push, data) ==
    log \o << [push |-> push, inp |-> NormalizeAudio(data)],
              [push |-> push, inp |-> NormalizeAudio(data)] >>

\* self.engine.infer(inp), inp the normalized window: one call.
InferCall(log, push, data) ==
    Append(log, [push |-> push, inp |-> NormalizeAudio(data)])

\* start's device loop: the index (from 0) of the first device named
\* 'pulse', 0 when there is none.
ChosenIdx(devs) ==
    IF \E i \in 1..Len(devs) : devs[i] = "pulse"
    THEN (CHOOSE i \in 1..Len(devs) :
            /\ devs[i] = "pulse"
            /\ \A j \in 1..(i - 1) : devs[j] # "pulse") - 1
    ELSE 0

\* Mutant of Configured: the check of the context is missing.
ConfiguredEngineOnly == engine # "None"

\* start's two checks: self.engine is None, self.ctx is None.
Configured == engine # "None" /\ ctx # "None"

(***************************************************************************)
(* The audio thread: _on_audio.                                            *)
(***************************************************************************)

\* The capture library ends a stream whose callback raised.
StreamAborts == active' = FALSE /\ UNCHANGED <<stream, input_device_index>>

\* A frame arrives: self.last_data = in_data; self._audio_buf.append(in_data)
FramePush(limit) ==
    /\ active
    /\ cb_pc = "idle"
    /\ nframes < limit
    /\ nframes' = nframes + 1
    /\ in_stream' = stream
    /\ last_data' = nframes + 1
    /\ audio_buf' = Append(audio_buf, nframes + 1)
    /\ cb_pc' = "check"
    /\ audio_data' = <<>>
    /\ lis_i' = 0
    /\ notified' = <<>>
    /\ detected' = "none"
    /\ cb_error' = "none"
    /\ UNCHANGED <<engine, ctx, listeners, sequence, info_enabled, join_pc,
                   windows, inferred, stub_run, stub_notify>>
    /\ UNCHANGED streamVars
    /\ UNCHANGED startVars

OnAudioPush == FramePush(MaxFrames)

OnAudioPushLong == FramePush(LongFrames)

\* Mutant of OnAudioCheck: the retirement is left for after the inference,
\* so a failing callback leaves the window in the buffer.
OnAudioCheckKeeps ==
    /\ cb_pc = "check"
    /\ IF WindowReady(audio_buf)
       THEN /\ audio_data' = JoinBuf(audio_buf)
            /\ windows' = Append(windows,
                                 [push |-> nframes, data |-> JoinBuf(audio_buf)])
            /\ cb_pc' = "infer"
       ELSE /\ cb_pc' = "idle"
            /\ UNCHANGED <<audio_data, windows>>
    /\ UNCHANGED <<engine, ctx, listeners, audio_buf, last_data, sequence,
                   info_enabled, lis_i, join_pc, nframes, in_stream, inferred,
                   notified, detected, cb_error, stub_run, stub_notify>>
    /\ UNCHANGED streamVars
    /\ UNCHANGED startVars

\* The length test, then audio_data = b''.join(...) and the retirement.
OnAudioCheck ==
    /\ cb_pc = "check"
    /\ IF WindowReady(audio_buf)
       THEN /\ audio_data' = JoinBuf(audio_buf)
            /\ audio_buf' = Retire(audio_buf)
            /\ windows' = Append(windows,
                                 [push |-> nframes, data |-> JoinBuf(audio_buf)])
            /\ cb_pc' = "infer"
       ELSE /\ cb_pc' = "idle"
            /\ UNCHANGED <<audio_data, audio_buf, windows>>
    /\ UNCHANGED <<engine, ctx, listeners, last_data, sequence, info_enabled,
                   lis_i, join_pc, nframes, in_stream, inferred, notified,
                   detected, cb_error, stub_run, stub_notify>>
    /\ UNCHANGED streamVars
    /\ UNCHANGED startVars

\* Mutant of InferRaised: the exception is swallowed and the listeners run.
InferRaisedSwallowed ==
    /\ cb_pc' = "notify"
    /\ lis_i' = 1
    /\ cb_error' = "infer"
    /\ UNCHANGED <<detected, notified, sequence>>

\* engine.infer raises: nothing in _on_audio catches it, the callback ends.
InferRaised ==
    /\ cb_pc' = "idle"
    /\ cb_error' = "infer"
    /\ UNCHANGED <<detected, notified, sequence, lis_i>>

\* Mutant of InferReturned: the listeners are notified whatever infer answers.
InferReturnedIgnored(res, seq) ==
    /\ sequence' = seq
    /\ detected' = IF res THEN "pos" ELSE "neg"
    /\ cb_pc' = "log"
    /\ UNCHANGED <<cb_error, notified, lis_i>>

\* engine.infer returns: False ends the callback, True goes on to the log line.
InferReturned(res, seq) ==
    /\ sequence' = seq
    /\ detected' = IF res THEN "pos" ELSE "neg"
    /\ cb_pc' = IF res THEN "log" ELSE "idle"
    /\ UNCHANGED <<cb_error, notified, lis_i>>

\* The stub engine's answer on the window just emitted.
StubAnswers(res, seq) ==
    /\ res = (Len(windows) = StubWindow)
    /\ res => seq = StubSeq

\* The engine has answered otherwise than the stub: the run is no stub run.
StubLeft ==
    /\ stub_run' = FALSE
    /\ stub_notify' = [push |-> 0, arg |-> <<>>]

\* arr = self._normalize_audio(audio_data); if self.engine.infer(inp):
OnAudioInfer ==
    /\ cb_pc = "infer"
    /\ inferred' = InferCall(inferred, nframes, audio_data)
    /\ \/ InferRaised /\ StreamAborts /\ StubLeft
       \/ \E seq \in TokenSeqs :
            /\ InferReturned(FALSE, seq)
            /\ UNCHANGED streamVars
            /\ IF StubAnswers(FALSE, seq) THEN UNCHANGED <<stub_run, stub_notify>>
                                          ELSE StubLeft
       \/ \E seq \in TokenSeqs :
            /\ InferReturned(TRUE, seq)
            /\ UNCHANGED streamVars
            /\ IF StubAnswers(TRUE, seq) THEN UNCHANGED <<stub_run, stub_notify>>
                                         ELSE StubLeft
    /\ UNCHANGED <<engine, ctx, listeners, audio_buf, last_data, info_enabled,
                   audio_data, join_pc, nframes, in_stream, windows>>
    /\ UNCHANGED startVars

\* phrase = ...; logging.info(f'{phrase} detected', end='\r'): Logger.info
\* hands its keyword arguments to Logger._log only when INFO is enabled, and
\* _log has no parameter 'end', so the call raises TypeError then.
OnAudioLog ==
    /\ cb_pc = "log"
    /\ IF info_enabled
       THEN /\ cb_pc' = "idle"
            /\ cb_error' = "log"
            /\ lis_i' = lis_i
            /\ StreamAborts
       ELSE /\ cb_pc' = "notify"
            /\ lis_i' = 1
            /\ UNCHANGED cb_error
            /\ UNCHANGED streamVars
    /\ UNCHANGED <<engine, ctx, listeners, audio_buf, last_data, sequence,
                   info_enabled, audio_data, join_pc, nframes, in_stream,
                   windows, inferred, notified, detected, stub_run,
                   stub_notify>>
    /\ UNCHANGED startVars

\* Mutant of NextListener: a listener is dropped from the list once called.
NextListenerOnce ==
    /\ lis_i' = lis_i
    /\ listeners' = SubSeq(listeners, 1, lis_i - 1)
                       \o SubSeq(listeners, lis_i + 1, Len(listeners))

\* The for loop's step to the next element of self.listeners.
NextListener ==
    /\ lis_i' = lis_i + 1
    /\ UNCHANGED listeners

\* Mutant of ListenerRaised: each listener is called in a try block and
\* the loop goes on to the next one.
ListenerRaisedIsolated ==
    /\ cb_pc' = cb_pc
    /\ cb_error' = "listener"
    /\ lis_i' = lis_i + 1
    /\ UNCHANGED listeners

\* A listener raises: nothing in _on_audio catches it, the loop and the
\* callback end.
ListenerRaised ==
    /\ cb_pc' = "idle"
    /\ cb_error' = "listener"
    /\ UNCHANGED <<lis_i, listeners>>

\* for lis in self.listeners: lis(self.engine.sequence); return data_ok
OnAudioNotify ==
    /\ cb_pc = "notify"
    /\ IF lis_i <= Len(listeners)
       THEN /\ notified' = Append(notified,
                                  [lis |-> listeners[lis_i], arg |-> sequence])
            /\ stub_notify' = IF stub_run /\ stub_notify.push = 0
                              THEN [push |-> nframes, arg |-> sequence]
                              ELSE stub_notify
            /\ \/ /\ NextListener
                  /\ UNCHANGED <<cb_pc, cb_error>>
                  /\ UNCHANGED streamVars
               \/ /\ ListenerRaised
                  /\ StreamAborts
       ELSE /\ cb_pc' = "idle"
            /\ UNCHANGED <<notified, lis_i, listeners, cb_error, stub_notify>>
            /\ UNCHANGED streamVars
    /\ UNCHANGED <<engine, ctx, audio_buf, last_data, sequence, info_enabled,
                   audio_data, join_pc, nframes, in_stream, windows, inferred,
                   detected, stub_run>>
    /\ UNCHANGED startVars

\* The stream stops for a reason outside the client (stop_stream, the device).
StreamStops ==
    /\ active
    /\ cb_pc = "idle"
    /\ active' = FALSE
    /\ UNCHANGED <<stream, input_device_index>>
    /\ UNCHANGED clientVars
    /\ UNCHANGED cbVars
    /\ UNCHANGED startVars
    /\ UNCHANGED <<sequence, info_enabled, join_pc>>

(***************************************************************************)
(* The controller thread: add_listener, from_pretrained, start, join.      *)
(***************************************************************************)

\* add_listener: self.listeners.append(listener); no deduplication.
AddListener(lis) ==
    /\ join_pc # "polling"
    /\ Len(listeners) < MaxListeners
    /\ listeners' = Append(listeners, lis)
    /\ UNCHANGED <<engine, ctx, audio_buf, last_data, sequence, info_enabled,
                   join_pc>>
    /\ UNCHANGED streamVars
    /\ UNCHANGED cbVars
    /\ UNCHANGED startVars

\* from_pretrained: self.engine and self.ctx are replaced by the loaded
\* pair; the loaded engine has decoded nothing yet.
FromPretrained ==
    /\ join_pc # "polling"
    /\ engine' = "engine"
    /\ ctx' = "ctx"
    /\ sequence' = <<>>
    /\ UNCHANGED <<listeners, audio_buf, last_data, info_enabled, join_pc>>
    /\ UNCHANGED streamVars
    /\ UNCHANGED cbVars
    /\ UNCHANGED startVars

\* start, engine or context missing: raise AttributeError.
StartNotConfigured ==
    /\ start_error' = IF engine = "None" THEN "AttributeError: InferenceEngine"
                                         ELSE "AttributeError: InferenceContext"
    /\ UNCHANGED device_io
    /\ UNCHANGED streamVars

\* start, configured: the device loop, self._audio.open, self.stream =
\* stream, stream.start_stream().  open raises when no device can be opened.
StartOpen ==
    \E devs \in DeviceLists :
        /\ device_io' = device_io + 1
        /\ IF devs = <<>>
           THEN /\ start_error' = "OSError"
                /\ UNCHANGED streamVars
           ELSE /\ start_error' = "none"
                /\ stream' = stream + 1
                /\ active' = TRUE
                /\ input_device_index' = ChosenIdx(devs)

Start ==
    /\ join_pc # "polling"
    /\ ~active
    /\ n_start < MaxStarts
    /\ n_start' = n_start + 1
    /\ IF Configured THEN StartOpen ELSE StartNotConfigured
    /\ UNCHANGED clientVars
    /\ UNCHANGED cbVars
    /\ UNCHANGED <<sequence, info_enabled, join_pc>>

\* join is entered; self.stream exists only after a start() that opened one.
JoinCall ==
    /\ join_pc # "polling"
    /\ stream # 0
    /\ join_pc' = "polling"
    /\ UNCHANGED clientVars
    /\ UNCHANGED streamVars
    /\ UNCHANGED cbVars
    /\ UNCHANGED startVars
    /\ UNCHANGED <<sequence, info_enabled>>

\* Mutant of JoinTest: the loop is left after one sleep whatever the stream.
JoinTestOnce == join_pc' = "returned"

\* while self.stream.is_active(): time.sleep(0.1)
JoinTest == join_pc' = IF active THEN "polling" ELSE "returned"

\* Mutant of JoinPoll: join drops the buffered frames when it returns.
JoinPollClears ==
    /\ join_pc = "polling"
    /\ JoinTest
    /\ audio_buf' = IF active THEN audio_buf ELSE <<>>
    /\ UNCHANGED <<engine, ctx, listeners, last_data>>
    /\ UNCHANGED streamVars
    /\ UNCHANGED cbVars
    /\ UNCHANGED startVars
    /\ UNCHANGED <<sequence, info_enabled>>

JoinPoll ==
    /\ join_pc = "polling"
    /\ JoinTest
    /\ UNCHANGED clientVars
    /\ UNCHANGED streamVars
    /\ UNCHANGED cbVars
    /\ UNCHANGED startVars
    /\ UNCHANGED <<sequence, info_enabled>>

AudioThread ==
    OnAudioPush \/ OnAudioCheck \/ OnAudioInfer \/ OnAudioLog \/ OnAudioNotify

ControllerThread ==
    \/ \E lis \in ListenerIds : AddListener(lis)
    \/ FromPretrained
    \/ Start
    \/ JoinCall
    \/ JoinPoll

Next == AudioThread \/ ControllerThread \/ StreamStops

Spec == Init /\ [][Next]_vars

\* The audio thread alone on a client that registers no listener and is
\* not joined, over a longer run of frames; the stream may stop and be
\* started again.
WindowNext ==
    \/ OnAudioPushLong
    \/ OnAudioCheck
    \/ OnAudioInfer
    \/ OnAudioLog
    \/ OnAudioNotify
    \/ StreamStops
    \/ FromPretrained
    \/ Start

WindowSpec == Init /\ [][WindowNext]_vars

\* join's polling loop keeps running: the controller thread is scheduled.
FairSpec == Spec /\ WF_vars(JoinPoll)

(***************************************************************************)
(* Properties.                                                             *)
(***************************************************************************)

\* Pushes that emitted a window.
EmitPushes == {windows[i].push : i \in 1..Len(windows)}

\* Pushes whose length test has been executed.
DecidedPushes == {k \in 1..nframes : k < nframes \/ cb_pc # "check"}

\* The push that emitted the first window (0 before it).
FirstEmit == IF windows = <<>> THEN 0 ELSE windows[1].push

\* C1, as claimed: once the first window has been emitted, every later push
\* through _on_audio emits a window too.
C1_EveryPushEmits ==
    \A k \in DecidedPushes :
        (windows # <<>> /\ k >= FirstEmit) => k \in EmitPushes

\* C1, amended: from the first emitting push on, a push emits a window
\* exactly when an even number of pushes separates it from the first
\* emitting push: every second push emits, the one in between does not.
C1_EverySecondPushEmits ==
    \A k \in DecidedPushes :
        (windows # <<>> /\ k >= FirstEmit)
            => (k \in EmitPushes <=> (k - FirstEmit) % RetireStride = 0)

\* A push after the first emission that emitted nothing, followed by one
\* that emitted.
C1_Witness ==
    \E k \in DecidedPushes \ EmitPushes :
        /\ windows # <<>>
        /\ k > FirstEmit
        /\ \E k2 \in EmitPushes : k2 > k

\* C2: from an empty buffer, pushes 1..N-1 emit nothing and push N emits
\* the first window.
C2_FirstWindowAtNthPush ==
    \A k \in DecidedPushes :
        k <= audio_buf_len => (k \in EmitPushes <=> k = audio_buf_len)

\* Push N has just emitted the first window.
C2_Witness ==
    /\ nframes = audio_buf_len
    /\ cb_pc = "infer"
    /\ EmitPushes = {audio_buf_len}

\* C3: while fewer than N frames have been pushed, no window has been
\* emitted, infer has not been called and no listener has been called.
C3_NoWindowBeforeN ==
    nframes < audio_buf_len
        => /\ windows = <<>>
           /\ inferred = <<>>
           /\ notified = <<>>
           /\ detected = "none"
           /\ cb_pc \in {"idle", "check"}

\* N-1 frames have been pushed and the last callback has returned.
C3_Witness ==
    /\ nframes = audio_buf_len - 1
    /\ cb_pc = "idle"
    /\ Len(audio_buf) = audio_buf_len - 1

\* C4: every emitted window is N frames with consecutive arrival indices,
\* oldest first, ending with the frame just pushed; at the emission it is
\* the buffer's content, whose two oldest frames are then retired.
C4_WindowIsBuffer ==
    /\ \A i \in 1..Len(windows) :
         /\ Len(windows[i].data) = audio_buf_len
         /\ \A j \in 1..audio_buf_len :
              windows[i].data[j] = windows[i].push - audio_buf_len + j
    /\ cb_pc = "infer"
         => /\ audio_data = windows[Len(windows)].data
            /\ windows[Len(windows)].push = nframes
            /\ audio_buf = SubSeq(audio_data, RetireStride + 1, Len(audio_data))

\* A window emitted after an earlier emission.
C4_Witness ==
    /\ cb_pc = "infer"
    /\ Len(windows) >= 2
    /\ audio_data[audio_buf_len] = nframes

\* C5, as claimed: a listener is called with the engine's token sequence,
\* in registration order; a callback that emitted a window ends with every
\* registered listener called once if infer answered True (and no listener
\* raised), and with no listener called if infer answered False.
C5_ListenersNotified ==
    [][ /\ notified' # notified /\ notified' # <<>>
            => /\ lis_i <= Len(listeners)
               /\ notified' = Append(notified, [lis |-> listeners[lis_i],
                                                arg |-> sequence])
        /\ (cb_pc # "idle" /\ cb_pc' = "idle" /\ detected' = "neg")
            => notified' = <<>>
        /\ (cb_pc # "idle" /\ cb_pc' = "idle" /\ detected' = "pos"
                /\ cb_error' # "listener")
            => Len(notified') = Len(listeners')
               /\ \A i \in 1..Len(listeners') :
                    notified'[i].lis = listeners'[i]
      ]_vars

\* C6: infer is called once per emitted window, in the callback that emitted
\* it and with that window normalized, in emission order, and on no push
\* that emitted no window.
C6_InferOncePerWindow ==
    /\ Len(inferred) = IF cb_pc = "infer" THEN Len(windows) - 1
                                          ELSE Len(windows)
    /\ \A i \in 1..Len(inferred) :
         /\ i <= Len(windows)
         /\ inferred[i].push = windows[i].push
         /\ inferred[i].inp = NormalizeAudio(windows[i].data)
    /\ \A i, j \in 1..Len(windows) :
         i < j => windows[i].push < windows[j].push

\* Two windows have been emitted and inferred.
C6_Witness ==
    /\ Len(inferred) >= 2
    /\ cb_pc = "idle"
    /\ inferred[Len(inferred)].push = nframes

\* What start raises when the client is not configured.
NotConfigured ==
    {"AttributeError: InferenceEngine", "AttributeError: InferenceContext"}

\* C7: start() with the engine or the context absent raises the
\* not-configured error, reaches no device and changes nothing of the
\* session; a stream is opened only with engine and context both set.
C7_StartChecksConfiguration ==
    [][ /\ n_start' # n_start
            => IF engine = "None" \/ ctx = "None"
               THEN /\ start_error' \in NotConfigured
                    /\ device_io' = device_io
                    /\ UNCHANGED <<stream, active, input_device_index,
                                   audio_buf, last_data, listeners, engine,
                                   ctx>>
               ELSE /\ start_error' \notin NotConfigured
                    /\ device_io' = device_io + 1
        /\ (stream' # stream \/ device_io' # device_io)
            => engine # "None" /\ ctx # "None"
      ]_vars

\* start() has failed on a client without engine or context.
C7_Witness ==
    /\ n_start > 0
    /\ start_error \in NotConfigured
    /\ device_io = 0
    /\ stream = 0

\* C8: join() returns only on a stream that is not active and, its polling
\* loop being scheduled, returns once the stream is not active.
C8_JoinReturnsWhenInactive ==
    /\ [][(join_pc = "polling" /\ join_pc' # "polling")
             => (~active /\ join_pc' = "returned")]_vars
    /\ [](join_pc = "polling" => stream # 0)
    /\ (join_pc = "polling" /\ ~active) ~> (join_pc = "returned")

\* join() has returned after a stream that delivered frames ended.
C8_Witness ==
    /\ join_pc = "returned"
    /\ stream # 0
    /\ nframes > 0
    /\ ~active

\* C9: when infer raises, the callback ends without calling a listener and
\* without a second call of infer, the stream is no longer active, no later
\* frame arrives on that stream, and a join() blocked on it returns.
C9_InferFailureAborts ==
    /\ [][(cb_pc = "infer" /\ cb_error' = "infer")
             => /\ cb_pc' = "idle"
                /\ notified' = <<>>
                /\ ~active'
                /\ Len(inferred') = Len(inferred) + 1]_vars
    /\ [](cb_error = "infer"
             => /\ cb_pc = "idle"
                /\ notified = <<>>
                /\ (stream = in_stream => ~active))
    /\ [][(cb_error = "infer" /\ nframes' # nframes)
             => stream # in_stream]_vars
    /\ (join_pc = "polling" /\ cb_error = "infer" /\ stream = in_stream)
           ~> (join_pc = "returned")

\* join() has returned after infer raised on a window.
C9_Witness ==
    /\ cb_error = "infer"
    /\ stream = in_stream
    /\ join_pc = "returned"
    /\ inferred # <<>>

\* C10, as claimed: while streaming, no step of the controller thread
\* writes the buffer, the last-seen frame or the listener list.
C10_ControllerWritesNothing ==
    [][(active /\ ControllerThread)
          => UNCHANGED <<audio_buf, last_data, listeners>>]_vars

\* C10, amended: the buffer and the last-seen frame are written only by
\* the audio callback, never by a step of the controller thread; the
\* listener list is written only by add_listener, which appends to it on
\* the controller thread, and the audio callback only reads it.
C10_WritersByThread ==
    [][ /\ ControllerThread => UNCHANGED <<audio_buf, last_data>>
        /\ (audio_buf' # audio_buf \/ last_data' # last_data) => AudioThread
        /\ AudioThread => UNCHANGED listeners
        /\ listeners' # listeners
            => /\ ControllerThread
               /\ \E lis \in ListenerIds : listeners' = Append(listeners, lis)
      ]_vars

\* While streaming, the callback is calling listeners registered by the
\* controller, on a buffer and a last-seen frame it has written itself.
C10_Witness ==
    /\ active
    /\ cb_pc = "notify"
    /\ Len(listeners) = MaxListeners
    /\ last_data = nframes
    /\ Len(audio_buf) = audio_buf_len - RetireStride

\* C11: no step of join() (its entry, its polling, its return) changes the
\* buffer, the last-seen frame, the listener list, the engine, the context,
\* the stream handle or the stream's liveness.
C11_JoinChangesNothing ==
    [][(join_pc' # join_pc \/ JoinCall \/ JoinPoll)
          => UNCHANGED <<audio_buf, last_data, listeners, engine, ctx,
                         stream, active, input_device_index>>]_vars

\* join() has returned on a client that holds frames and listeners.
C11_Witness ==
    /\ join_pc = "returned"
    /\ audio_buf # <<>>
    /\ listeners # <<>>
    /\ last_data = nframes

\* C12: when the i-th listener raises on a dispatched detection, the calls
\* made are exactly those of listeners 1..i in registration order, one each,
\* no later listener is called, and the callback has ended with the error
\* (the stream it ran on is no longer active).
C12_ListenerFailureStopsDispatch ==
    cb_error = "listener"
        => /\ cb_pc = "idle"
           /\ detected = "pos"
           /\ Len(notified) = lis_i
           /\ lis_i >= 1
           /\ lis_i <= Len(listeners)
           /\ \A j \in 1..Len(notified) : notified[j].lis = listeners[j]
           /\ (stream = in_stream => ~active)

\* The first of two registered listeners raised: the second was not called.
C12_Witness ==
    /\ cb_error = "listener"
    /\ Len(notified) = 1
    /\ Len(listeners) = 2
    /\ stream = in_stream

\* C13, as claimed: when the scenario's frames have been pushed from an
\* empty buffer to a stub engine that answers True on exactly the 16th
\* emitted window, a first notification has been delivered to the
\* listeners, not before the 16th push, with the stub's token sequence.
C13_DetectionDelivered ==
    (stub_run /\ nframes = MaxFrames /\ cb_pc = "idle" /\ listeners # <<>>)
        => /\ stub_notify.push >= audio_buf_len
           /\ stub_notify.arg = StubSeq

\* C13, amended: the scenario's 20 frames emit three windows only (pushes
\* 16, 18 and 20), so the stub engine is never asked about a 16th window:
\* it answers True on none, and no notification is delivered.
C13_NoDetectionWithinScenario ==
    stub_run
        => /\ stub_notify.push = 0
           /\ notified = <<>>
           /\ detected # "pos"
           /\ Len(windows) < StubWindow
           /\ (nframes = MaxFrames /\ cb_pc # "check")
                => Len(windows)
                     = (MaxFrames - audio_buf_len) \div RetireStride + 1

\* The scenario has run to its last frame against the stub engine, with a
\* listener registered.
C13_Witness ==
    /\ stub_run
    /\ nframes = MaxFrames
    /\ cb_pc = "idle"
    /\ listeners # <<>>
    /\ n_start = 1
    /\ Len(inferred) = (MaxFrames - audio_buf_len) \div RetireStride + 1

\* C14: the buffer never holds more than N frames, the states between the
\* append and the retirement included.
C14_BufferAtMostN == Len(audio_buf) <= audio_buf_len

\* Inside a callback, after the append and before the retirement, the buffer
\* holds N frames again after an earlier emission.
C14_Witness ==
    /\ cb_pc = "check"
    /\ Len(audio_buf) = audio_buf_len
    /\ windows # <<>>

\* The frames of a window.
Frames(data) == {data[i] : i \in 1..Len(data)}

\* C15: an emission retires the two oldest frames of the buffer and no
\* other, so two consecutive windows share exactly N-2 frames, and the
\* later one starts with the third frame of the earlier one.
C15_ConsecutiveWindowsOverlap ==
    /\ \A i \in 1..(Len(windows) - 1) :
         /\ windows[i + 1].data[1] = windows[i].data[3]
         /\ Cardinality(Frames(windows[i].data)
                          \cap Frames(windows[i + 1].data))
              = audio_buf_len - 2
    /\ cb_pc \in {"infer", "log", "notify"}
         => audio_buf = SubSeq(windows[Len(windows)].data, 3, audio_buf_len)

\* A second window has just been emitted.
C15_Witness ==
    /\ cb_pc = "infer"
    /\ Len(windows) = 2

\* C16, as claimed: after the first emission the buffer holds N-1 or N
\* frames after each completed push.
C16_LengthNMinus1OrN ==
    (windows # <<>> /\ cb_pc = "idle")
        => Len(audio_buf) \in {audio_buf_len - 1, audio_buf_len}

\* C16, amended: after the first emission the buffer holds N-2 frames after
\* a completed push that emitted a window and N-1 frames after the push in
\* between, alternating with push parity.
C16_LengthNMinus2OrNMinus1 ==
    (windows # <<>> /\ cb_pc = "idle")
        => Len(audio_buf) = IF (nframes - FirstEmit) % 2 = 0
                            THEN audio_buf_len - 2
                            ELSE audio_buf_len - 1

\* A push after the second emission has completed without emitting.
C16_Witness ==
    /\ cb_pc = "idle"
    /\ Len(windows) = 2
    /\ nframes \notin EmitPushes
    /\ Len(audio_buf) = audio_buf_len - 1

\* C17, as claimed: none of the pushes 1..N emits a window and push N+1
\* emits the first one.
C17_FirstEmissionOnPushNPlus1 ==
    \A k \in DecidedPushes :
        /\ k <= audio_buf_len => k \notin EmitPushes
        /\ k = audio_buf_len + 1 => k \in EmitPushes

\* C17, amended: none of the pushes 1..N-1 emits a window; the first
\* emission is on push N, whose window is the frames 1..N, because a push
\* emits when the buffer holds N frames with the frame just pushed; push
\* N+1 emits nothing.
C17_FirstEmissionOnPushN ==
    /\ windows = <<>> => \A k \in DecidedPushes : k < audio_buf_len
    /\ windows # <<>>
         => /\ FirstEmit = audio_buf_len
            /\ Len(windows[1].data) = audio_buf_len
            /\ \A j \in 1..audio_buf_len : windows[1].data[j] = j
    /\ (audio_buf_len + 1) \in DecidedPushes
         => (audio_buf_len + 1) \notin EmitPushes

\* Push N+1 has completed: only push N has emitted.
C17_Witness ==
    /\ nframes = audio_buf_len + 1
    /\ cb_pc = "idle"
    /\ EmitPushes = {audio_buf_len}

\* C18, as claimed: the buffer is empty when the first frame of a newly
\* opened stream arrives.
C18_BufferEmptyAtNewSession ==
    [][(nframes' # nframes /\ stream # in_stream) => audio_buf = <<>>]_vars

\* The emitted windows a frame lies in.
WindowsWith(f) == {j \in 1..Len(windows) : f \in Frames(windows[j].data)}

\* C19: every frame is in the buffer once, in arrival order; the j-th
\* emitted window (j = 0, 1, ...) is the frames 2j+1 .. 2j+N, so every frame
\* up to the end of the last window lies in at least one and at most N/2
\* windows.
C19_WindowsCoverFrames ==
    /\ \A i \in 1..Len(audio_buf) :
         audio_buf[i] = nframes - Len(audio_buf) + i
    /\ \A j \in 1..Len(windows) :
         /\ Len(windows[j].data) = audio_buf_len
         /\ \A i \in 1..audio_buf_len :
              windows[j].data[i] = 2 * (j - 1) + i
    /\ windows # <<>>
         => \A f \in 1..windows[Len(windows)].data[audio_buf_len] :
                /\ Cardinality(WindowsWith(f)) >= 1
                /\ Cardinality(WindowsWith(f)) <= audio_buf_len \div 2

\* Frame N lies in N/2 windows, and a later window without it has been
\* emitted.
C19_Witness ==
    /\ cb_pc = "idle"
    /\ Cardinality(WindowsWith(audio_buf_len)) = audio_buf_len \div 2
    /\ Len(windows) > audio_buf_len \div 2
    /\ WindowsWith(1) = {1}

\* C20: when engine.infer or a listener has raised, the last-seen frame is
\* the frame just pushed and the buffer is the failed window without its two
\* oldest frames (N-2 frames); no window is presented to infer twice.
C20_NoRollbackOnFailure ==
    /\ cb_error \in {"infer", "listener"}
         => /\ last_data = nframes
            /\ windows[Len(windows)].push = nframes
            /\ inferred[Len(inferred)].push = nframes
            /\ Len(audio_buf) = audio_buf_len - 2
            /\ audio_buf = SubSeq(windows[Len(windows)].data, 3, audio_buf_len)
    /\ \A i, j \in 1..Len(inferred) :
         i # j => inferred[i].inp # inferred[j].inp

\* infer raised on the second window: the buffer has lost its two oldest
\* frames all the same.
C20_Witness ==
    /\ cb_error = "infer"
    /\ Len(windows) = 2
    /\ audio_buf[1] = windows[2].data[3]

====
